---- MODULE Spec2Model ----
(***************************************************************************)
(* Model of the translation-editor add-on (src/src/addons.py): the Worker  *)
(* that imports a JSON or pickled translation database into the editor's   *)
(* string collection, and the GUI-thread operations of EditorAddon that    *)
(* overwrite the same collection (update_gui_with_data, import_esp); and   *)
(* of the animated StackedWidget (src/src/widgets/stacked_widget.py).      *)
(*                                                                         *)
(* Worker.run executes on a thread-pool thread, so it is modelled step by  *)
(* step (pc is its position in run); the EditorAddon slots execute on the  *)
(* GUI thread and are modelled as one action each.                         *)
(*                                                                         *)
(* Specifications:                                                         *)
(*   Spec           one worker at a time on an unconstrained file system;  *)
(*                  the progress dialog opened by load_from_db is          *)
(*                  window-modal, so the GUI-thread operations act only    *)
(*                  while no worker is running                             *)
(*   SpecRoundTrip  export_json followed by import_json of the export file *)
(*   SpecLoad       one worker reading a file whose content is known       *)
(*   SpecEsp        one import_esp call with its arguments on record       *)
(*   SpecConc       load_from_db called while workers run; the signals of  *)
(*                  the workers queue up for the slots of the addon        *)
(*   SpecSlide      the StackedWidget                                      *)
(*                                                                         *)
(* Not modelled: the text of the tree items (tree_item.setText), logging   *)
(* and the file dialogs' widgets.                                          *)
(***************************************************************************)
EXTENDS Integers, Sequences, FiniteSets, TLC

(***************************************************************************)
(* Bounds                                                                  *)
(***************************************************************************)
MaxItems == 2            \* records in editor.items
MaxEntries == 2          \* entries in one source file
MaxPluginStrings == 2    \* strings extracted from one plugin
MaxWorkers == 2          \* load_from_db calls in one behaviour
MaxPages == 2            \* pages of the StackedWidget

(***************************************************************************)
(* Values                                                                  *)
(***************************************************************************)
None == "None"

TranslationComplete == "TranslationComplete"
TranslationIncomplete == "TranslationIncomplete"
Untranslated == "Untranslated"
Status == {Untranslated, TranslationIncomplete, TranslationComplete}

\* Source-language texts (keys) and translation texts.  "DB" is a substring
\* of the worker's result payload, "foo" is both a key and a translation.
Originals == {"foo", "DB"}
Translations == {"foo", "bar"}

\* utils.String as the editor holds it.  What an import never writes is fixed
\* by the position in the collection: the original texts alternate (so the
\* third string repeats the first), the strings share form id and type and
\* are numbered by index, and the second one has no editor id.
MkString(t, s, k) ==
    [original_string |-> IF k % 2 = 1 THEN "foo" ELSE "DB",
     translated_string |-> t, status |-> s,
     editor_id |-> IF k = 2 THEN None ELSE "E1",
     form_id |-> "F1", type |-> "T", index |-> k - 1]

ItemCollections ==
    UNION { { [k \in 1..n |-> MkString(t[k], s[k], k)] :
                t \in [1..n -> Translations], s \in [1..n -> Status] } : n \in 0..MaxItems }

\* Paths handed to load_from_db: the shortcut's default None, an exported
\* JSON file, a database dump, and a file of another extension.
Paths == {None, "export.json", "database.ats", "notes.txt"}

\* Objects of a JSON array: dicts with any subset of the two keys read.
JsonEntries ==
    { e \in UNION { [F -> Originals \cup Translations] : F \in SUBSET {"original", "string"} } :
        /\ "original" \in DOMAIN e => e["original"] \in Originals
        /\ "string" \in DOMAIN e => e["string"] \in Translations }

\* Objects of a pickled list: utils.String instances, objects that expose the
\* same attributes but are falsy (bool(entry) is False), and objects of
\* another class that have none of the attributes.
OtherObject == [class |-> "object"]
PickledStrings ==
    [class : {"String"}, original_string : Originals,
     translated_string : Translations, status : Status, truthy : {TRUE}]
FalsyStrings ==
    [class : {"FalsyString"}, original_string : Originals,
     translated_string : {"bar"}, status : {TranslationComplete}, truthy : {FALSE}]
PickledEntries == PickledStrings \cup FalsyStrings \cup {OtherObject}

SeqsUpTo(S, n) == UNION { [1..m -> S] : m \in 0..n }

\* What load_data finds at the path: no file, content that the parser it
\* uses for the path rejects, or a list that the parser returns.
FileContents(p) ==
    {[kind |-> "missing"], [kind |-> "malformed"]}
    \cup { [kind |-> "list", f |-> f] :
            f \in SeqsUpTo(IF p = "export.json" THEN JsonEntries ELSE PickledEntries, MaxEntries) }

EmptyDict == [k \in {} |-> None]

\* A file system about which nothing is known: whatever a worker opens may
\* hold any content.  Otherwise the disk holds one file (path, content).
AnyDisk == [path |-> "*"]

\* No import_esp call is on record
NoCall == [made |-> FALSE]

\* Strings that Plugin.extract_strings returns for a translated plugin.
PluginStrings ==
    [editor_id : {"E1", None}, form_id : {"F1"}, type : {"T"},
     index : {0, 1}, original_string : Translations]

NoException == [type |-> None, raised_in |-> None]
Raise(t, where) == [type |-> t, raised_in |-> where]

(***************************************************************************)
(* State                                                                   *)
(***************************************************************************)
VARIABLES
    items,          \* editor.items: the strings, in insertion order
    pc,             \* position of the worker in Worker.run
    path,           \* Worker.path
    data,           \* run's local: the mapping returned by load_data
    total_entries,  \* run's local: len(data)
    i,              \* import_data's local counter
    pos,            \* import_data's position in editor.items (next record)
    exc,            \* the exception that left the try block of run
    signals,        \* the signals the current worker has emitted, in order
    items0,         \* history: editor.items when the worker was started
    disk,           \* the file system the worker reads and export_json writes
    esp_call,       \* history: the arguments of the import_esp call made
    workers,        \* the Workers the pool has started, in the order of their start
    dialogs,        \* the progress dialogs created, in the order of their creation
    progress_dialog,      \* EditorAddon.progress_dialog: 0 (None) or a position in dialogs
    queue,                \* signals posted to the GUI thread and not delivered yet
    changes_emitted,      \* number of editor.changes_signal.emit() calls of the slots
    string_list_updates,  \* number of editor.update_string_list() calls of the slots
    page_count,     \* StackedWidget.count(): the number of pages
    currentIndex,   \* StackedWidget.currentIndex(): -1 while there is no page
    active,         \* StackedWidget._active
    anims,          \* the animation groups that are running
    orientation,    \* StackedWidget.orientation
    reverse,        \* StackedWidget.reverse
    last_call       \* history: the last slide request made to the StackedWidget

\* The state of the one worker of Spec, and the state that only the other
\* specifications of this module change.
worker_vars == <<pc, path, data, total_entries, i, pos, exc, signals, items0>>
conc_vars ==
    <<workers, dialogs, progress_dialog, queue, changes_emitted, string_list_updates>>
slide_vars == <<page_count, currentIndex, active, anims, orientation, reverse, last_call>>
other_vars == <<disk, esp_call, conc_vars, slide_vars>>
vars == <<items, worker_vars, other_vars>>

\* No slide request is on record
NoSlideCall == [op |-> None, n |-> 0]

\* A StackedWidget without pages
NoPages ==
    /\ page_count = 0
    /\ currentIndex = -1
    /\ active = FALSE
    /\ anims = <<>>
    /\ orientation = "Vertical"
    /\ reverse = FALSE
    /\ last_call = NoSlideCall

\* EditorAddon.__init__ has run and load_from_db has not been called
NoWorkers ==
    /\ workers = <<>>
    /\ dialogs = <<>>
    /\ progress_dialog = 0
    /\ queue = <<>>
    /\ changes_emitted = 0
    /\ string_list_updates = 0

Emit(name, arg) == Append(signals, [signal |-> name, arg |-> arg])

\* What open(p) can find
Readable(p) ==
    IF disk = AnyDisk THEN FileContents(p)
    ELSE IF disk.path = p THEN {disk.content}
    ELSE {[kind |-> "missing"]}

(***************************************************************************)
(* Worker.load_data                                                        *)
(***************************************************************************)
\* str.endswith
EndsWith(s, suffix) ==
    /\ Len(s) >= Len(suffix)
    /\ SubSeq(s, Len(s) - Len(suffix) + 1, Len(s)) = suffix

\* Mutant: an entry does not replace an earlier one with the same text.
RECURSIVE load_json_first_wins(_, _, _)
load_json_first_wins(f, k, d) ==
    IF k > Len(f) THEN [raised |-> None, data |-> d]
    ELSE IF "original" \notin DOMAIN f[k] THEN [raised |-> "KeyError", data |-> d]
    ELSE load_json_first_wins(f, k + 1, d @@ (f[k]["original"] :> f[k]))

\* for entry in f: data[entry['original']] = entry
RECURSIVE load_json(_, _, _)
load_json(f, k, d) ==
    IF k > Len(f) THEN [raised |-> None, data |-> d]
    ELSE IF "original" \notin DOMAIN f[k] THEN [raised |-> "KeyError", data |-> d]
    ELSE load_json(f, k + 1, (f[k]["original"] :> f[k]) @@ d)

\* for entry in f: data[entry.original_string] = entry
RECURSIVE load_pickle(_, _, _)
load_pickle(f, k, d) ==
    IF k > Len(f) THEN [raised |-> None, data |-> d]
    ELSE IF "original_string" \notin DOMAIN f[k] THEN [raised |-> "AttributeError", data |-> d]
    ELSE load_pickle(f, k + 1, (f[k].original_string :> f[k]) @@ d)

\* The outcome of load_data for a path and what it finds there: the
\* exception it raises (None if it returns) and the mapping it returns.
load_data(p, content) ==
    IF p = None THEN [raised |-> "AttributeError", data |-> EmptyDict]
    ELSE IF content.kind = "missing" THEN [raised |-> "FileNotFoundError", data |-> EmptyDict]
    ELSE IF EndsWith(p, ".json")
         THEN IF content.kind = "malformed"
              THEN [raised |-> "JSONDecodeError", data |-> EmptyDict]
              ELSE load_json(content.f, 1, EmptyDict)
         ELSE IF content.kind = "malformed"
              THEN [raised |-> "UnpicklingError", data |-> EmptyDict]
              ELSE load_pickle(content.f, 1, EmptyDict)

(***************************************************************************)
(* Worker.import_data, one iteration of its loop                           *)
(***************************************************************************)
\* Mutant: the JSON branch overwrites without comparing 'string' to the
\* original text.
import_json_string_always(string, entry) ==
    [string EXCEPT !.translated_string = entry["string"],
                   !.status = TranslationIncomplete]

\* Mutant: the JSON branch overwrites the text and forgets the status.
import_json_string_keeps_status(string, entry) ==
    IF entry["string"] # string.original_string
    THEN [string EXCEPT !.translated_string = entry["string"]]
    ELSE string

\* JSON branch, with the entry data[string.original_string]: overwrite unless
\* the entry's 'string' is the original text.
import_json_string(string, entry) ==
    IF entry["string"] # string.original_string
    THEN [string EXCEPT !.translated_string = entry["string"],
                        !.status = TranslationIncomplete]
    ELSE string

\* Mutant: the legacy branch sets the status the JSON branch sets.
import_legacy_string_incomplete(string, entry) ==
    IF entry.truthy
    THEN [string EXCEPT !.translated_string = entry.translated_string,
                        !.status = TranslationIncomplete]
    ELSE string

\* Legacy branch, with the entry data[string.original_string]: overwrite with
\* the entry's fields if the entry is truthy.
import_legacy_string(string, entry) ==
    IF entry.truthy
    THEN [string EXCEPT !.translated_string = entry.translated_string,
                        !.status = entry.status]
    ELSE string

\* Mutant: the loop does not test the status of the string.
import_string_any_status(string, d, json_format) ==
    IF string.original_string \notin DOMAIN d
    THEN [string |-> string, key_error |-> TRUE]
    ELSE IF json_format
    THEN IF "string" \notin DOMAIN d[string.original_string]
         THEN [string |-> string, key_error |-> TRUE]
         ELSE [string |-> import_json_string(string, d[string.original_string]),
               key_error |-> FALSE]
    ELSE [string |-> import_legacy_string(string, d[string.original_string]),
          key_error |-> FALSE]

\* One string of the loop up to the progress computation: the string it
\* leaves and whether a KeyError took the loop to `continue`.
import_string(string, d, json_format) ==
    IF string.status # TranslationComplete
    THEN IF string.original_string \notin DOMAIN d
         THEN [string |-> string, key_error |-> TRUE]
         ELSE IF json_format
         THEN IF "string" \notin DOMAIN d[string.original_string]
              THEN [string |-> string, key_error |-> TRUE]
              ELSE [string |-> import_json_string(string, d[string.original_string]),
                    key_error |-> FALSE]
         ELSE [string |-> import_legacy_string(string, d[string.original_string]),
               key_error |-> FALSE]
    ELSE [string |-> string, key_error |-> FALSE]

\* int((i + 1) / total_entries * 100); the float quotient truncates to the
\* integer quotient for the totals within the bounds.
progress_value(n, total) == ((n + 1) * 100) \div total

(***************************************************************************)
(* Actions: Worker.run                                                     *)
(***************************************************************************)
Init ==
    /\ items \in ItemCollections
    /\ pc = "idle"
    /\ path = None
    /\ data = EmptyDict
    /\ total_entries = 0
    /\ i = 0
    /\ pos = 1
    /\ exc = NoException
    /\ signals = <<>>
    /\ items0 = items
    /\ disk = AnyDisk
    /\ esp_call = NoCall
    /\ NoWorkers
    /\ NoPages

\* EditorAddon.load_from_db: creates a Worker for the path and starts it.
load_from_db ==
    /\ pc = "idle"
    /\ \E p \in Paths : path' = p
    /\ pc' = "load_data"
    /\ data' = EmptyDict
    /\ total_entries' = 0
    /\ i' = 0
    /\ pos' = 1
    /\ exc' = NoException
    /\ signals' = <<>>
    /\ items0' = items
    /\ UNCHANGED items
    /\ UNCHANGED other_vars

\* Mutant: a failed load is recorded and the run goes on with the entries
\* read so far.
run_load_data_continues ==
    /\ pc = "load_data"
    /\ \E content \in Readable(path) :
         LET r == load_data(path, content) IN
         /\ exc' = IF r.raised # None THEN Raise(r.raised, "load_data") ELSE exc
         /\ data' = r.data
         /\ total_entries' = Cardinality(DOMAIN r.data)
         /\ pc' = "import_data"
    /\ UNCHANGED <<items, path, i, pos, signals, items0>>
    /\ UNCHANGED other_vars

\* run: data = self.load_data(); total_entries = len(data)
run_load_data ==
    /\ pc = "load_data"
    /\ \E content \in Readable(path) :
         LET r == load_data(path, content) IN
         IF r.raised # None
         THEN /\ exc' = Raise(r.raised, "load_data")
              /\ pc' = "except"
              /\ UNCHANGED <<data, total_entries>>
         ELSE /\ data' = r.data
              /\ total_entries' = Cardinality(DOMAIN r.data)
              /\ pc' = "import_data"
              /\ UNCHANGED exc
    /\ UNCHANGED <<items, path, i, pos, signals, items0>>
    /\ UNCHANGED other_vars

\* import_data: one iteration of `for tree_item, string in editor.items.items()`
run_import_data ==
    /\ pc = "import_data"
    /\ pos <= Len(items)
    /\ LET r == import_string(items[pos], data, EndsWith(path, ".json"))
       IN /\ items' = [items EXCEPT ![pos] = r.string]
          /\ IF r.key_error
             THEN \* except KeyError: continue
                  /\ pos' = pos + 1
                  /\ UNCHANGED <<pc, i, exc, signals>>
             ELSE IF total_entries = 0
             THEN /\ exc' = Raise("ZeroDivisionError", "import_data")
                  /\ pc' = "except"
                  /\ UNCHANGED <<i, pos, signals>>
             ELSE /\ signals' = Emit("progress", progress_value(i, total_entries))
                  /\ i' = i + 1
                  /\ pos' = pos + 1
                  /\ UNCHANGED <<pc, exc>>
    /\ UNCHANGED <<path, data, total_entries, items0>>
    /\ UNCHANGED other_vars

\* run: self.editor.update_string_list() returns; result.emit('DB_IMPORTED')
run_result ==
    /\ pc = "import_data"
    /\ pos > Len(items)
    /\ signals' = Emit("result", "DB_IMPORTED")
    /\ pc' = "finally"
    /\ UNCHANGED <<items, path, data, total_entries, i, pos, exc, items0>>
    /\ UNCHANGED other_vars

\* run: self.editor.update_string_list() raises
run_update_string_list_raises ==
    /\ pc = "import_data"
    /\ pos > Len(items)
    /\ exc' = Raise("RuntimeError", "update_string_list")
    /\ pc' = "except"
    /\ UNCHANGED <<items, path, data, total_entries, i, pos, signals, items0>>
    /\ UNCHANGED other_vars

\* Mutant: the handler is `except KeyError`, other exceptions pass it by.
run_except_key_error_only ==
    /\ pc = "except"
    /\ signals' = IF exc.type = "KeyError" THEN Emit("error", exc) ELSE signals
    /\ pc' = "finally"
    /\ UNCHANGED <<items, path, data, total_entries, i, pos, exc, items0>>
    /\ UNCHANGED other_vars

\* run: except Exception as e: error.emit((type(e), e, e.__traceback__))
run_except ==
    /\ pc = "except"
    /\ signals' = Emit("error", exc)
    /\ pc' = "finally"
    /\ UNCHANGED <<items, path, data, total_entries, i, pos, exc, items0>>
    /\ UNCHANGED other_vars

\* Mutant: finished is emitted at the end of the try body, not in finally.
run_finally_on_success ==
    /\ pc = "finally"
    /\ signals' = IF exc = NoException THEN Emit("finished", None) ELSE signals
    /\ pc' = "done"
    /\ UNCHANGED <<items, path, data, total_entries, i, pos, exc, items0>>
    /\ UNCHANGED other_vars

\* run: finally: finished.emit()
run_finally ==
    /\ pc = "finally"
    /\ signals' = Emit("finished", None)
    /\ pc' = "done"
    /\ UNCHANGED <<items, path, data, total_entries, i, pos, exc, items0>>
    /\ UNCHANGED other_vars

\* EditorAddon.on_load_finished: the finished signal reaches the GUI thread,
\* the dialog closes and the worker, which the pool deletes after run, is gone.
on_load_finished ==
    /\ pc = "done"
    /\ pc' = "idle"
    /\ path' = None
    /\ data' = EmptyDict
    /\ total_entries' = 0
    /\ i' = 0
    /\ pos' = 1
    /\ exc' = NoException
    /\ signals' = <<>>
    /\ items0' = items
    /\ UNCHANGED items
    /\ UNCHANGED other_vars

(***************************************************************************)
(* EditorAddon.update_gui_with_data                                        *)
(***************************************************************************)
\* s in t for two str values
IsSubstring(s, t) ==
    \E k \in 1..(Len(t) - Len(s) + 1) : SubSeq(t, k, k + Len(s) - 1) = s

\* Payloads of the slot: the str the worker emits, or a dict of strings as
\* load_data builds it from a pickled list.
ResultPayload == [type |-> "str", value |-> "DB_IMPORTED"]
DictPayloads ==
    { [type |-> "dict", value |-> load_pickle(f, 1, EmptyDict).data] :
        f \in SeqsUpTo(PickledStrings \cup FalsyStrings, MaxEntries) }

\* string.original_string in data
Contains(payload, o) ==
    IF payload.type = "str" THEN IsSubstring(o, payload.value)
    ELSE o \in DOMAIN payload.value

\* The loop of update_gui_with_data from position k on: the collection it
\* leaves and the exception that ended it (None if it ran to its end).
RECURSIVE update_gui_loop(_, _, _)
update_gui_loop(its, k, payload) ==
    IF k > Len(its) THEN [items |-> its, raised |-> None]
    ELSE IF its[k].status # TranslationComplete /\ Contains(payload, its[k].original_string)
    THEN IF payload.type = "str"
         THEN \* data[...] with a str index on a str
              [items |-> its, raised |-> "TypeError"]
         ELSE LET entry == payload.value[its[k].original_string] IN
              update_gui_loop(
                  [its EXCEPT ![k].translated_string = entry.translated_string,
                              ![k].status = entry.status],
                  k + 1, payload)
    ELSE update_gui_loop(its, k + 1, payload)

update_gui_with_data ==
    /\ pc = "idle"
    /\ \E payload \in {ResultPayload} \cup DictPayloads :
         items' = update_gui_loop(items, 1, payload).items
    /\ items0' = items'
    /\ UNCHANGED <<pc, path, data, total_entries, i, pos, exc, signals>>
    /\ UNCHANGED other_vars

(***************************************************************************)
(* EditorAddon.import_esp                                                  *)
(***************************************************************************)
\* The key of a string: (editor_id, type) or (editor_id, form_id, type)
KeyOf(string, only_edid) ==
    IF only_edid THEN <<string.editor_id, string.type>>
    ELSE <<string.editor_id, string.form_id, string.type>>

\* Mutant: a key holds only the first string extracted with it.
extract_translation_strings_one_per_key(translation_strings, only_edid) ==
    [key \in {KeyOf(translation_strings[n], only_edid) : n \in DOMAIN translation_strings} |->
        SubSeq(SelectSeq(translation_strings, LAMBDA string : KeyOf(string, only_edid) = key),
               1, 1)]

\* EditorAddon.extract_translation_strings: the plugin's strings grouped by
\* key, each group in the order of extraction.
extract_translation_strings(translation_strings, only_edid) ==
    [key \in {KeyOf(translation_strings[n], only_edid) : n \in DOMAIN translation_strings} |->
        SelectSeq(translation_strings, LAMBDA string : KeyOf(string, only_edid) = key)]

\* Mutant: a match overwrites the text and leaves the status.
import_esp_string_keeps_status(string, translation_strings, only_edid) ==
    LET key == KeyOf(string, only_edid)
        Overwrite(translation) ==
            [string EXCEPT !.translated_string = translation.original_string]
    IN  IF string.status = TranslationComplete THEN string
        ELSE IF string.editor_id = None /\ only_edid THEN string
        ELSE IF key \in DOMAIN translation_strings
        THEN IF Len(translation_strings[key]) > 1
             THEN LET translations == SelectSeq(translation_strings[key],
                                                LAMBDA trans : trans.index = string.index)
                  IN IF translations = <<>> THEN string
                     ELSE Overwrite(translations[1])
             ELSE Overwrite(translation_strings[key][1])
        ELSE string

\* The body of import_esp's loop for one string.
import_esp_string(string, translation_strings, only_edid) ==
    LET key == KeyOf(string, only_edid)
        Overwrite(translation) ==
            [string EXCEPT !.translated_string = translation.original_string,
                           !.status = TranslationIncomplete]
    IN  IF string.status = TranslationComplete THEN string
        ELSE IF string.editor_id = None /\ only_edid THEN string
        ELSE IF key \in DOMAIN translation_strings
        THEN IF Len(translation_strings[key]) > 1
             THEN LET translations == SelectSeq(translation_strings[key],
                                                LAMBDA trans : trans.index = string.index)
                  IN IF translations = <<>> THEN string
                     ELSE Overwrite(translations[1])
             ELSE Overwrite(translation_strings[key][1])
        ELSE string

\* import_esp with the file dialog accepted and a plugin selected
import_esp ==
    /\ pc = "idle"
    /\ \E only_edid \in BOOLEAN, extracted \in SeqsUpTo(PluginStrings, MaxPluginStrings) :
         LET translation_strings == extract_translation_strings(extracted, only_edid) IN
         items' = [k \in DOMAIN items |->
                     import_esp_string(items[k], translation_strings, only_edid)]
    /\ items0' = items'
    /\ UNCHANGED <<pc, path, data, total_entries, i, pos, exc, signals>>
    /\ UNCHANGED other_vars

\* import_esp with the file dialog rejected or nothing selected
import_esp_cancelled ==
    /\ pc = "idle"
    /\ UNCHANGED vars

Next ==
    \/ load_from_db
    \/ run_load_data
    \/ run_import_data
    \/ run_result
    \/ run_update_string_list_raises
    \/ run_except
    \/ run_finally
    \/ on_load_finished
    \/ update_gui_with_data
    \/ import_esp
    \/ import_esp_cancelled

Spec == Init /\ [][Next]_vars

(***************************************************************************)
(* Vocabulary of the properties                                            *)
(***************************************************************************)
Count(name) == Cardinality({k \in DOMAIN signals : signals[k].signal = name})
IndexOf(name) == CHOOSE k \in DOMAIN signals : signals[k].signal = name
ProgressSignals == SelectSeq(signals, LAMBDA s : s.signal = "progress")

\* A worker exists and reads its file as JSON, or as a pickled list.
JsonRun == pc # "idle" /\ path # None /\ EndsWith(path, ".json")
LegacyRun == pc # "idle" /\ path # None /\ ~EndsWith(path, ".json")
\* load_data has returned its mapping; import_data has run through the collection.
LoadReturned == pc \in {"import_data", "except", "finally", "done"} /\ exc.raised_in # "load_data"
ReconciliationDone == LoadReturned /\ pos > Len(items)
LoadFailed == exc.raised_in = "load_data"

\* The record at position k has the text and the status it had at the start.
Untouched(k) ==
    /\ items[k].translated_string = items0[k].translated_string
    /\ items[k].status = items0[k].status

(***************************************************************************)
(* C1: no step of any import operation (the worker's import in JSON or     *)
(* legacy mode, update_gui_with_data, import_esp in either key mode)       *)
(* changes the translated_string or the status of a record whose status is *)
(* TranslationComplete; so a record complete when an operation starts is   *)
(* the same when it ends, after any sequence of operations.                *)
(***************************************************************************)
C1_CompleteNeverMutated ==
    [][\A k \in DOMAIN items :
          items[k].status = TranslationComplete =>
              /\ k \in DOMAIN items'
              /\ items'[k].translated_string = items[k].translated_string
              /\ items'[k].status = TranslationComplete]_vars

\* A legacy run has ended that overwrote another record and left alone a
\* complete record for which the source held a different translation.
C1_CompleteSurvivesImport ==
    /\ pc = "done"
    /\ LegacyRun
    /\ \E k \in DOMAIN items0 :
         /\ items0[k].status = TranslationComplete
         /\ items0[k].original_string \in DOMAIN data
         /\ data[items0[k].original_string].truthy
         /\ data[items0[k].original_string].translated_string # items0[k].translated_string
         /\ Untouched(k)
    /\ \E j \in DOMAIN items0 : ~Untouched(j)

(***************************************************************************)
(* C2: a run emits finished exactly once and as its last signal, on every  *)
(* exit path (success, exception in load_data, in import_data, in          *)
(* update_string_list): finished is never followed by another signal, and  *)
(* a run that has ended has emitted it once.                               *)
(***************************************************************************)
C2_FinishedOnceAndLast ==
    /\ Count("finished") <= 1
    /\ \A k \in DOMAIN signals : signals[k].signal = "finished" => k = Len(signals)
    /\ pc = "done" => Count("finished") = 1
    /\ Count("finished") = 1 => pc = "done"

\* A run has ended on the path of an exception raised inside import_data.
C2_FinishedAfterImportFailure ==
    /\ pc = "done"
    /\ exc.raised_in = "import_data"
    /\ signals[Len(signals)].signal = "finished"

(***************************************************************************)
(* C3: a run emits exactly one of result and error, before finished:       *)
(* result only when load_data, import_data and update_string_list all      *)
(* returned, error (carrying the exception) whenever one of them raised;   *)
(* never both, and never neither once the run has ended.                   *)
(***************************************************************************)
C3_ExactlyOneOutcome ==
    /\ Count("result") + Count("error") <= 1
    /\ Count("result") = 1 => exc = NoException /\ ReconciliationDone
    /\ Count("error") = 1 => exc # NoException /\ signals[IndexOf("error")].arg = exc
    /\ pc \in {"finally", "done"} =>
         /\ Count("result") + Count("error") = 1
         /\ exc # NoException => Count("error") = 1
    /\ pc = "done" =>
         \A k \in DOMAIN signals :
            signals[k].signal \in {"result", "error"} => k < IndexOf("finished")

\* A run has ended in which update_string_list raised after a completed
\* reconciliation, and the run emitted error and no result.
C3_ErrorAfterUpdateFailure ==
    /\ pc = "done"
    /\ exc.raised_in = "update_string_list"
    /\ Count("error") = 1
    /\ Count("result") = 0

(***************************************************************************)
(* C4: while load_data has not returned, and for good if it raises         *)
(* (missing file, malformed content, entry without the key field, path     *)
(* None), no record's translated_string or status has changed and no       *)
(* progress has been emitted; the run whose load failed ends Failed (error *)
(* emitted, no result).                                                    *)
(***************************************************************************)
C4_LoadFailureLeavesRecords ==
    /\ (pc = "load_data" \/ LoadFailed) =>
         /\ \A k \in DOMAIN items : Untouched(k)
         /\ Len(items) = Len(items0)
         /\ Count("progress") = 0
         /\ Count("result") = 0
    /\ (LoadFailed /\ pc = "done") => Count("error") = 1

\* A run has ended Failed on a JSON file with an entry that lacks the key
\* field, with a record in the collection that an import could overwrite.
C4_FailedOnEntryWithoutKey ==
    /\ pc = "done"
    /\ LoadFailed
    /\ exc.type = "KeyError"
    /\ Count("error") = 1
    /\ \E k \in DOMAIN items0 : items0[k].status # TranslationComplete

(***************************************************************************)
(* C5: the progress values that import_data emits are non-decreasing, each *)
(* lies in [0,100], and the value 100 is emitted exactly when the          *)
(* processed count (the number of values emitted so far) equals the total. *)
(***************************************************************************)
C5_ProgressWithinPercent ==
    LET p == ProgressSignals IN
    /\ \A k \in 1..Len(p) : p[k].arg \in 0..100
    /\ \A k \in 1..(Len(p) - 1) : p[k].arg <= p[k + 1].arg
    /\ \A k \in 1..Len(p) : (p[k].arg = 100) <=> (k = total_entries)

(***************************************************************************)
(* C6: when the loaded source has zero entries the run completes (result   *)
(* emitted, no error), no record is changed and no progress is emitted,    *)
(* whatever the collection holds, complete records included; the zero      *)
(* total raises no division by zero.  (A failure of update_string_list is  *)
(* set aside: it is not about the zero total.)                             *)
(***************************************************************************)
C6_EmptySourceCompletes ==
    (pc = "done" /\ LoadReturned /\ total_entries = 0
        /\ exc.raised_in # "update_string_list") =>
        /\ exc.type # "ZeroDivisionError"
        /\ Count("result") = 1
        /\ Count("error") = 0
        /\ Count("progress") = 0
        /\ \A k \in DOMAIN items : Untouched(k)

(***************************************************************************)
(* C7 as claimed: in JSON mode a record whose entry in the mapping has an  *)
(* original text equal to the record's original_string keeps its           *)
(* translated_string and status.                                           *)
(***************************************************************************)
C7_EqualOriginalIsNoOp ==
    JsonRun =>
        \A k \in DOMAIN items :
            LET o == items0[k].original_string IN
            (o \in DOMAIN data /\ data[o]["original"] = o) => Untouched(k)

(***************************************************************************)
(* C7 amended: in JSON mode a record whose entry in the mapping has a      *)
(* translation text ('string') equal to the record's original_string keeps *)
(* its translated_string and status.                                       *)
(***************************************************************************)
C7_UntranslatedEntryIsNoOp ==
    JsonRun =>
        \A k \in DOMAIN items :
            LET o == items0[k].original_string IN
            (o \in DOMAIN data /\ "string" \in DOMAIN data[o] /\ data[o]["string"] = o)
                => Untouched(k)

\* A JSON run has ended on a record that was not complete, held another text
\* than its original, and whose entry's 'string' is the original text.
C7_UntranslatedEntrySeen ==
    /\ pc = "done"
    /\ JsonRun
    /\ Count("result") = 1
    /\ \E k \in DOMAIN items0 :
         LET o == items0[k].original_string IN
         /\ items0[k].status = Untranslated
         /\ items0[k].translated_string # o
         /\ o \in DOMAIN data
         /\ "string" \in DOMAIN data[o]
         /\ data[o]["string"] = o
         /\ Untouched(k)

(***************************************************************************)
(* C8: in JSON mode, once reconciliation has run through the collection,   *)
(* every record that was not complete and whose original_string is a key   *)
(* of the mapping with a 'string' different from the original text has the *)
(* entry's 'string' as translated_string and status TranslationIncomplete. *)
(***************************************************************************)
C8_JsonEntryOverwrites ==
    (JsonRun /\ ReconciliationDone) =>
        \A k \in DOMAIN items :
            LET o == items0[k].original_string IN
            (/\ items0[k].status # TranslationComplete
             /\ o \in DOMAIN data
             /\ "string" \in DOMAIN data[o]
             /\ data[o]["string"] # o) =>
                /\ items[k].translated_string = data[o]["string"]
                /\ items[k].status = TranslationIncomplete

\* The scenario: the record "foo", Untranslated, and the mapping
\* {"foo": {"original": "foo", "string": "bar"}}; the run has ended.
C8_FooBarScenario ==
    /\ pc = "done"
    /\ JsonRun
    /\ Len(items0) >= 1
    /\ items0[1].original_string = "foo"
    /\ items0[1].status = Untranslated
    /\ items0[1].translated_string = "foo"
    /\ DOMAIN data = {"foo"}
    /\ DOMAIN data["foo"] = {"original", "string"}
    /\ data["foo"]["string"] = "bar"
    /\ items[1].translated_string = "bar"
    /\ items[1].status = TranslationIncomplete

(***************************************************************************)
(* C9: in legacy mode, once reconciliation has run through the collection, *)
(* every record that was not complete and whose original_string is a key   *)
(* of the mapping with a truthy entry has exactly the entry's              *)
(* translated_string and status (TranslationComplete and Untranslated      *)
(* included); a record whose original_string is not a key is unchanged.    *)
(***************************************************************************)
C9_LegacyEntryOverwrites ==
    LegacyRun =>
        \A k \in DOMAIN items :
            LET o == items0[k].original_string IN
            /\ (/\ ReconciliationDone
                /\ items0[k].status # TranslationComplete
                /\ o \in DOMAIN data
                /\ data[o].truthy) =>
                   /\ items[k].translated_string = data[o].translated_string
                   /\ items[k].status = data[o].status
            /\ o \notin DOMAIN data => Untouched(k)

\* A legacy run has ended that made an Untranslated record complete with the
\* entry's text and left alone a record whose original text is not a key.
C9_LegacyMadeComplete ==
    /\ pc = "done"
    /\ LegacyRun
    /\ \E k \in DOMAIN items0 :
         LET o == items0[k].original_string IN
         /\ items0[k].status = Untranslated
         /\ o \in DOMAIN data
         /\ data[o].truthy
         /\ data[o].status = TranslationComplete
         /\ data[o].translated_string # items0[k].translated_string
         /\ items[k].status = TranslationComplete
         /\ items[k].translated_string = data[o].translated_string
    /\ \E j \in DOMAIN items0 :
         /\ items0[j].status # TranslationComplete
         /\ items0[j].original_string \notin DOMAIN data
         /\ Untouched(j)

(***************************************************************************)
(* C10: every failure of a run other than a record's original_string being *)
(* absent from the mapping makes the run emit error and end Failed: an     *)
(* exception that leaves the try block, and also a JSON entry that is      *)
(* present for a record that is not complete but has no 'string' field.    *)
(***************************************************************************)
C10_OnlyLookupMissIsSilent ==
    pc = "done" =>
        /\ exc # NoException => Count("error") = 1 /\ Count("result") = 0
        /\ (JsonRun /\ LoadReturned /\
            \E k \in DOMAIN items0 :
                /\ items0[k].status # TranslationComplete
                /\ items0[k].original_string \in DOMAIN data
                /\ "string" \notin DOMAIN data[items0[k].original_string])
           => Count("error") = 1 /\ Count("result") = 0

\* The extensions the import file dialog offers: JSON and the database dump.
RecognizedExtension(p) == EndsWith(p, ".json") \/ EndsWith(p, ".ats")

(***************************************************************************)
(* C11: a worker started for a path that ends in neither recognized        *)
(* extension never gets a mapping from load_data (it never reaches the     *)
(* reconciliation loop), and once its run is over it has failed in         *)
(* load_data with UnsupportedFormat.                                       *)
(***************************************************************************)
C11_UnrecognizedExtensionFails ==
    (pc # "idle" /\ path # None /\ ~RecognizedExtension(path)) =>
        /\ ~LoadReturned
        /\ pc = "done" => /\ LoadFailed
                          /\ exc.type = "UnsupportedFormat"
                          /\ Count("error") = 1

(***************************************************************************)
(* C16: a run that has gone through the whole collection has emitted one   *)
(* progress value per record, and the k-th value is the one computed from  *)
(* the processed count k - 1.                                              *)
(***************************************************************************)
C16_OneProgressPerRecord ==
    ReconciliationDone =>
        /\ Len(ProgressSignals) = Len(items)
        /\ \A k \in DOMAIN ProgressSignals :
             ProgressSignals[k].arg = progress_value(k - 1, total_entries)

(***************************************************************************)
(* Export and re-import: export_json writes the strings to the export      *)
(* file, import_json starts a worker that reads the file back              *)
(***************************************************************************)
\* The file export_json writes: <data_path>/user/export/<plugin_name>.json
ExportPath == "export.json"

\* Collections in which the original text of each string is free, so that
\* several strings can share one original text.
SharedKeyCollections ==
    UNION { { [k \in 1..n |-> [MkString(t[k], s[k], k) EXCEPT !.original_string = o[k]]] :
                o \in [1..n -> Originals], t \in [1..n -> Translations],
                s \in [1..n -> Status] } : n \in 0..MaxItems }

\* export_json's loop from position k on: the list `data` of entries, one
\* for each string that is exported, numbered by the position of the string.
RECURSIVE export_data(_, _, _)
export_data(its, k, full) ==
    IF k > Len(its) THEN <<>>
    ELSE IF full \/ its[k].status # TranslationComplete
    THEN <<[index |-> k - 1, type |-> its[k].type,
            original |-> its[k].original_string,
            string |-> its[k].translated_string]>> \o export_data(its, k + 1, full)
    ELSE export_data(its, k + 1, full)

\* export_json: the entries are written as one JSON array, which json.load
\* reads back as the list of the same dicts.
export_json ==
    /\ pc = "idle"
    /\ \E full \in BOOLEAN :
         disk' = [path |-> ExportPath,
                  content |-> [kind |-> "list", f |-> export_data(items, 1, full)]]
    /\ UNCHANGED <<items, worker_vars, esp_call, conc_vars, slide_vars>>

\* import_json with the export file selected in the file dialog (which
\* offers existing files only): load_from_db(selected_file)
import_json ==
    /\ pc = "idle"
    /\ disk.content.kind # "missing"
    /\ path' = disk.path
    /\ pc' = "load_data"
    /\ data' = EmptyDict
    /\ total_entries' = 0
    /\ i' = 0
    /\ pos' = 1
    /\ exc' = NoException
    /\ signals' = <<>>
    /\ items0' = items
    /\ UNCHANGED <<items, other_vars>>

InitRoundTrip ==
    /\ items \in SharedKeyCollections
    /\ pc = "idle"
    /\ path = None
    /\ data = EmptyDict
    /\ total_entries = 0
    /\ i = 0
    /\ pos = 1
    /\ exc = NoException
    /\ signals = <<>>
    /\ items0 = items
    /\ disk = [path |-> ExportPath, content |-> [kind |-> "missing"]]
    /\ esp_call = NoCall
    /\ NoWorkers
    /\ NoPages

NextRoundTrip ==
    \/ export_json
    \/ import_json
    \/ run_load_data
    \/ run_import_data
    \/ run_result
    \/ run_update_string_list_raises
    \/ run_except
    \/ run_finally
    \/ on_load_finished

SpecRoundTrip == InitRoundTrip /\ [][NextRoundTrip]_vars

(***************************************************************************)
(* C12: when the worker reads the file that the non-full export_json       *)
(* wrote from the very collection it was started on, no step of its        *)
(* import changes the translated_string or the status of a record.         *)
(***************************************************************************)
C12_RoundTripChangesNothing ==
    (/\ pc # "idle"
     /\ disk.content.kind = "list"
     /\ disk.content.f = export_data(items0, 1, FALSE)) =>
        \A k \in DOMAIN items : Untouched(k)

(***************************************************************************)
(* Loading a known file: the disk holds one file, which import_json        *)
(* selects                                                                 *)
(***************************************************************************)
\* Collections of strings that all are complete or all have no translation yet
LoadCollections ==
    { c \in ItemCollections :
        \A k \in DOMAIN c : /\ c[k].translated_string = "foo"
                            /\ c[k].status \in {Untranslated, TranslationComplete}
                            /\ c[k].status = c[1].status }

InitLoad ==
    /\ items \in LoadCollections
    /\ pc = "idle"
    /\ path = None
    /\ data = EmptyDict
    /\ total_entries = 0
    /\ i = 0
    /\ pos = 1
    /\ exc = NoException
    /\ signals = <<>>
    /\ items0 = items
    /\ \E p \in Paths \ {None} : \E content \in FileContents(p) :
         disk = [path |-> p, content |-> content]
    /\ esp_call = NoCall
    /\ NoWorkers
    /\ NoPages

NextLoad ==
    \/ import_json
    \/ run_load_data
    \/ run_import_data
    \/ run_result
    \/ run_update_string_list_raises
    \/ run_except
    \/ run_finally
    \/ on_load_finished

SpecLoad == InitLoad /\ [][NextLoad]_vars

\* The list the parser returned for the worker's file, and the original
\* text of its n-th entry.
SourceEntries == disk.content.f
SourceKey(n) ==
    IF EndsWith(path, ".json") THEN SourceEntries[n]["original"]
    ELSE SourceEntries[n].original_string
SourceKeys == {SourceKey(n) : n \in DOMAIN SourceEntries}
LastWithKey(o) ==
    CHOOSE n \in DOMAIN SourceEntries :
        /\ SourceKey(n) = o
        /\ \A m \in DOMAIN SourceEntries : SourceKey(m) = o => m <= n

(***************************************************************************)
(* C19: once load_data has returned, the mapping has exactly the distinct  *)
(* original texts of the source as keys, each key holds the last source    *)
(* entry with that text, and the total of the run, from which every        *)
(* progress value is computed, is the number of distinct keys.             *)
(***************************************************************************)
C19_MappingIsLastWriteWins ==
    LoadReturned =>
        /\ DOMAIN data = SourceKeys
        /\ \A o \in DOMAIN data : data[o] = SourceEntries[LastWithKey(o)]
        /\ total_entries = Cardinality(SourceKeys)
        /\ \A k \in DOMAIN ProgressSignals :
             ProgressSignals[k].arg = progress_value(k - 1, Cardinality(SourceKeys))

\* A source with two different entries for one text, read for a collection
\* of another size: the last entry is in the mapping, and the total differs
\* from the number of source entries and from the number of records.
C19_DuplicateKeySeen ==
    /\ pc = "done"
    /\ LoadReturned
    /\ Len(SourceEntries) = 2
    /\ SourceKey(1) = SourceKey(2)
    /\ SourceEntries[1] # SourceEntries[2]
    /\ data[SourceKey(1)] = SourceEntries[2]
    /\ total_entries = 1
    /\ total_entries # Len(SourceEntries)
    /\ total_entries # Len(items)
    /\ Len(ProgressSignals) > 0

(***************************************************************************)
(* One import_esp call with its arguments on record                        *)
(***************************************************************************)
\* Strings that Plugin.extract_strings returns for a translated plugin whose
\* records have two form ids.  They are utils.String objects fresh from the
\* plugin: original_string is the plugin's (translated) text, and they carry
\* no translation of their own.
TranslatedPluginStrings ==
    [editor_id : {"E1", None}, form_id : {"F1", "F2"}, type : {"T"},
     index : {0, 1}, original_string : Translations,
     translated_string : {None}, status : {Untranslated}]

\* Collections of strings each of which is complete or has no translation yet
EspCollections ==
    { c \in ItemCollections :
        \A k \in DOMAIN c : /\ c[k].translated_string = "foo"
                            /\ c[k].status \in {Untranslated, TranslationComplete} }

\* import_esp with a plugin selected; the call is recorded in esp_call, and
\* items0 keeps the collection as it was before the call.
import_esp_plugin ==
    /\ pc = "idle"
    /\ esp_call = NoCall
    /\ \E only_edid \in BOOLEAN,
          extracted \in SeqsUpTo(TranslatedPluginStrings, MaxPluginStrings) :
         LET translation_strings == extract_translation_strings(extracted, only_edid) IN
         /\ items' = [k \in DOMAIN items |->
                        import_esp_string(items[k], translation_strings, only_edid)]
         /\ esp_call' = [made |-> TRUE, only_edid |-> only_edid, extracted |-> extracted]
    /\ UNCHANGED <<worker_vars, disk, conc_vars, slide_vars>>

InitEsp ==
    /\ items \in EspCollections
    /\ pc = "idle"
    /\ path = None
    /\ data = EmptyDict
    /\ total_entries = 0
    /\ i = 0
    /\ pos = 1
    /\ exc = NoException
    /\ signals = <<>>
    /\ items0 = items
    /\ disk = AnyDisk
    /\ esp_call = NoCall
    /\ NoWorkers
    /\ NoPages

NextEsp ==
    \/ import_esp_plugin
    \/ import_esp_cancelled

SpecEsp == InitEsp /\ [][NextEsp]_vars

\* The extracted strings that are candidates for the record at position k:
\* those with its editor id and type and, unless only_edid, its form id.
Candidates(k) ==
    SelectSeq(esp_call.extracted,
              LAMBDA e : /\ e.editor_id = items0[k].editor_id
                         /\ e.type = items0[k].type
                         /\ esp_call.only_edid \/ e.form_id = items0[k].form_id)

\* The candidate that the rule of C14 selects for the record at position k,
\* as a sequence of one string, or the empty sequence if the rule selects none.
MatchOf(k) ==
    IF items0[k].status = TranslationComplete THEN <<>>
    ELSE IF esp_call.only_edid /\ items0[k].editor_id = None THEN <<>>
    ELSE IF Len(Candidates(k)) <= 1 THEN Candidates(k)
    ELSE LET same_index == SelectSeq(Candidates(k), LAMBDA e : e.index = items0[k].index)
         IN  IF same_index = <<>> THEN <<>> ELSE <<same_index[1]>>

(***************************************************************************)
(* C14: after import_esp, a record for which the rule selects no candidate *)
(* (it is complete, it has no editor id in only_edid mode, its key has no  *)
(* candidate, or none of several candidates has its index) is as it was;   *)
(* any other record has been overwritten, with the text of the single      *)
(* candidate of its key or of the first candidate that has its index.      *)
(***************************************************************************)
C14_CandidateSelection ==
    esp_call.made =>
        \A k \in DOMAIN items :
            IF MatchOf(k) = <<>> THEN items[k] = items0[k]
            ELSE /\ items[k] # items0[k]
                 /\ items[k].translated_string = MatchOf(k)[1].original_string

\* In only_edid mode the first record has two candidates with different form
\* ids and texts; the second one has its index and has been used.
C14_SecondCandidateByIndex ==
    /\ esp_call.made
    /\ esp_call.only_edid
    /\ Len(items) >= 1
    /\ Len(Candidates(1)) = 2
    /\ Candidates(1)[1].form_id # Candidates(1)[2].form_id
    /\ Candidates(1)[1].original_string # Candidates(1)[2].original_string
    /\ Candidates(1)[1].index # items0[1].index
    /\ Candidates(1)[2].index = items0[1].index
    /\ items[1].translated_string = Candidates(1)[2].original_string
    /\ items[1].translated_string # items0[1].translated_string

(***************************************************************************)
(* C15 as stated: a record for which import_esp selects a candidate takes  *)
(* the candidate's own translated_string and status, as the legacy branch  *)
(* of import_data would give them.                                         *)
(***************************************************************************)
C15_OverwritesLikeLegacy ==
    esp_call.made =>
        \A k \in DOMAIN items :
            MatchOf(k) # <<>> =>
                /\ items[k].translated_string = MatchOf(k)[1].translated_string
                /\ items[k].status = MatchOf(k)[1].status

(***************************************************************************)
(* C15 amended: a record for which import_esp selects a candidate takes    *)
(* the candidate's original_string as its translated_string and the status *)
(* TranslationIncomplete, whatever the candidate's own translated_string   *)
(* and status are.                                                         *)
(***************************************************************************)
C15_OverwritesWithPluginText ==
    esp_call.made =>
        \A k \in DOMAIN items :
            MatchOf(k) # <<>> =>
                /\ items[k].translated_string = MatchOf(k)[1].original_string
                /\ items[k].status = TranslationIncomplete

\* A record without translation has been overwritten from a candidate whose
\* own status and translated_string differ from what the record now has.
C15_MatchMadeIncomplete ==
    /\ esp_call.made
    /\ \E k \in DOMAIN items :
        /\ MatchOf(k) # <<>>
        /\ items0[k].status = Untranslated
        /\ items[k].status = TranslationIncomplete
        /\ items[k].status # MatchOf(k)[1].status
        /\ items[k].translated_string = "bar"
        /\ items[k].translated_string # MatchOf(k)[1].translated_string

(***************************************************************************)
(* Several workers: load_from_db called while earlier workers still run    *)
(*                                                                         *)
(* Each Worker runs on a thread of EditorAddon.threadpool (a pool of as    *)
(* many threads as the machine has cores; the model gives every started    *)
(* worker a thread).  Its signals are connected to slots of the addon,     *)
(* which lives in the GUI thread, so every emission is posted to the GUI   *)
(* thread's event queue and the slot runs when the event is delivered.     *)
(* load_from_db is a method without precondition: it is called here at any *)
(* time, also while a dialog is open.  All workers share the editor's      *)
(* strings and read the one file of the disk, or get the path None.        *)
(*                                                                         *)
(* Not modelled: the dialog's Cancel button.                               *)
(***************************************************************************)
\* A worker as load_from_db creates it, with the outcome of the slots its
\* signals reach: result_slot is "pending", "returned" or the exception
\* that ended update_gui_with_data.
NewWorker(p) ==
    [pc |-> "load_data", path |-> p, data |-> EmptyDict, total_entries |-> 0,
     i |-> 0, pos |-> 1, exc |-> NoException,
     result_slot |-> "pending", finished_handled |-> FALSE]

\* signal.emit() in the worker's thread
Post(w, name, arg) == Append(queue, [worker |-> w, signal |-> name, arg |-> arg])

\* The export file holding the one entry foo -> bar
ConcDisks ==
    { [path |-> ExportPath,
       content |-> [kind |-> "list", f |-> <<[original |-> "foo", string |-> "bar"]>>]] }

\* One string, foo or DB, complete or without translation yet
ConcCollections ==
    { c \in SharedKeyCollections :
        /\ Len(c) = 1
        /\ c[1].translated_string = "foo"
        /\ c[1].status \in {Untranslated, TranslationComplete} }

InitConc ==
    /\ items \in ConcCollections
    /\ pc = "idle"
    /\ path = None
    /\ data = EmptyDict
    /\ total_entries = 0
    /\ i = 0
    /\ pos = 1
    /\ exc = NoException
    /\ signals = <<>>
    /\ items0 = items
    /\ disk \in ConcDisks
    /\ esp_call = NoCall
    /\ NoWorkers
    /\ NoPages

conc_frame == <<worker_vars, disk, esp_call, slide_vars>>

\* Mutant: load_from_db returns without a worker while one is running.
addon_load_from_db_exclusive ==
    /\ Len(workers) < MaxWorkers
    /\ \A w \in DOMAIN workers : workers[w].finished_handled
    /\ \E p \in {None, disk.path} :
         workers' = Append(workers, NewWorker(p))
    /\ dialogs' = Append(dialogs, "open")
    /\ progress_dialog' = Len(dialogs) + 1
    /\ UNCHANGED <<items, queue, changes_emitted, string_list_updates, conc_frame>>

\* EditorAddon.load_from_db: a new dialog replaces self.progress_dialog and
\* is shown; a new Worker is connected and started.
addon_load_from_db ==
    /\ Len(workers) < MaxWorkers
    /\ \E p \in {None, disk.path} :
         workers' = Append(workers, NewWorker(p))
    /\ dialogs' = Append(dialogs, "open")
    /\ progress_dialog' = Len(dialogs) + 1
    /\ UNCHANGED <<items, queue, changes_emitted, string_list_updates, conc_frame>>

\* run: data = self.load_data(); total_entries = len(data)
worker_load_data(w) ==
    /\ workers[w].pc = "load_data"
    /\ \E content \in Readable(workers[w].path) :
         LET r == load_data(workers[w].path, content) IN
         workers' = [workers EXCEPT ![w] =
            IF r.raised # None
            THEN [@ EXCEPT !.exc = Raise(r.raised, "load_data"), !.pc = "except"]
            ELSE [@ EXCEPT !.data = r.data,
                           !.total_entries = Cardinality(DOMAIN r.data),
                           !.pc = "import_data"]]
    /\ UNCHANGED <<items, dialogs, progress_dialog, queue, changes_emitted,
                   string_list_updates, conc_frame>>

\* import_data: one iteration of the loop of worker w
worker_import_data(w) ==
    /\ workers[w].pc = "import_data"
    /\ workers[w].pos <= Len(items)
    /\ LET self == workers[w]
           r == import_string(items[self.pos], self.data, EndsWith(self.path, ".json"))
       IN /\ items' = [items EXCEPT ![self.pos] = r.string]
          /\ IF r.key_error
             THEN /\ workers' = [workers EXCEPT ![w].pos = self.pos + 1]
                  /\ UNCHANGED queue
             ELSE IF self.total_entries = 0
             THEN /\ workers' = [workers EXCEPT
                        ![w].exc = Raise("ZeroDivisionError", "import_data"),
                        ![w].pc = "except"]
                  /\ UNCHANGED queue
             ELSE /\ queue' = Post(w, "progress", progress_value(self.i, self.total_entries))
                  /\ workers' = [workers EXCEPT ![w].i = self.i + 1,
                                                ![w].pos = self.pos + 1]
    /\ UNCHANGED <<dialogs, progress_dialog, changes_emitted, string_list_updates, conc_frame>>

\* run: self.editor.update_string_list() returns; result.emit('DB_IMPORTED')
worker_result(w) ==
    /\ workers[w].pc = "import_data"
    /\ workers[w].pos > Len(items)
    /\ queue' = Post(w, "result", "DB_IMPORTED")
    /\ workers' = [workers EXCEPT ![w].pc = "finally"]
    /\ UNCHANGED <<items, dialogs, progress_dialog, changes_emitted,
                   string_list_updates, conc_frame>>

\* run: self.editor.update_string_list(), called outside the GUI thread, raises
worker_update_string_list_raises(w) ==
    /\ workers[w].pc = "import_data"
    /\ workers[w].pos > Len(items)
    /\ workers' = [workers EXCEPT ![w].exc = Raise("RuntimeError", "update_string_list"),
                                  ![w].pc = "except"]
    /\ UNCHANGED <<items, dialogs, progress_dialog, queue, changes_emitted,
                   string_list_updates, conc_frame>>

\* run: except Exception as e: error.emit(...)
worker_except(w) ==
    /\ workers[w].pc = "except"
    /\ queue' = Post(w, "error", workers[w].exc)
    /\ workers' = [workers EXCEPT ![w].pc = "finally"]
    /\ UNCHANGED <<items, dialogs, progress_dialog, changes_emitted,
                   string_list_updates, conc_frame>>

\* run: finally: finished.emit()
worker_finally(w) ==
    /\ workers[w].pc = "finally"
    /\ queue' = Post(w, "finished", None)
    /\ workers' = [workers EXCEPT ![w].pc = "done"]
    /\ UNCHANGED <<items, dialogs, progress_dialog, changes_emitted,
                   string_list_updates, conc_frame>>

\* QProgressDialog.setValue with autoReset and autoClose set: reaching the
\* maximum 100 resets and hides the dialog.
setValue(ds, d, value) ==
    IF value = 100 THEN [ds EXCEPT ![d] = "closed"] ELSE ds

\* EditorAddon.update_progress, the slot of progress
addon_update_progress ==
    /\ queue # <<>>
    /\ Head(queue).signal = "progress"
    /\ dialogs' = IF progress_dialog # 0
                  THEN setValue(dialogs, progress_dialog, Head(queue).arg)
                  ELSE dialogs
    /\ queue' = Tail(queue)
    /\ UNCHANGED <<items, workers, progress_dialog, changes_emitted,
                   string_list_updates, conc_frame>>

\* EditorAddon.update_gui_with_data, the slot of result, with the payload
\* the worker emitted; an exception ends the slot before the refresh.
addon_update_gui_with_data ==
    /\ queue # <<>>
    /\ Head(queue).signal = "result"
    /\ LET r == update_gui_loop(items, 1, [type |-> "str", value |-> Head(queue).arg])
           w == Head(queue).worker
       IN /\ items' = r.items
          /\ IF r.raised # None
             THEN /\ workers' = [workers EXCEPT ![w].result_slot = r.raised]
                  /\ UNCHANGED <<changes_emitted, string_list_updates>>
             ELSE /\ workers' = [workers EXCEPT ![w].result_slot = "returned"]
                  /\ string_list_updates' = string_list_updates + 1
                  /\ changes_emitted' = changes_emitted + 1
    /\ queue' = Tail(queue)
    /\ UNCHANGED <<dialogs, progress_dialog, conc_frame>>

\* EditorAddon.handle_error, the slot of error: prints the error
addon_handle_error ==
    /\ queue # <<>>
    /\ Head(queue).signal = "error"
    /\ queue' = Tail(queue)
    /\ UNCHANGED <<items, workers, dialogs, progress_dialog, changes_emitted,
                   string_list_updates, conc_frame>>

\* EditorAddon.on_load_finished, the slot of finished: sets the value of
\* self.progress_dialog to 100, closes it and emits changes_signal
addon_on_load_finished ==
    /\ queue # <<>>
    /\ Head(queue).signal = "finished"
    /\ dialogs' = IF progress_dialog # 0
                  THEN [setValue(dialogs, progress_dialog, 100)
                            EXCEPT ![progress_dialog] = "closed"]
                  ELSE dialogs
    /\ changes_emitted' = changes_emitted + 1
    /\ workers' = [workers EXCEPT ![Head(queue).worker].finished_handled = TRUE]
    /\ queue' = Tail(queue)
    /\ UNCHANGED <<items, progress_dialog, string_list_updates, conc_frame>>

NextConc ==
    \/ addon_load_from_db
    \/ \E w \in DOMAIN workers : worker_load_data(w)
    \/ \E w \in DOMAIN workers : worker_import_data(w)
    \/ \E w \in DOMAIN workers : worker_result(w)
    \/ \E w \in DOMAIN workers : worker_update_string_list_raises(w)
    \/ \E w \in DOMAIN workers : worker_except(w)
    \/ \E w \in DOMAIN workers : worker_finally(w)
    \/ addon_update_progress
    \/ addon_update_gui_with_data
    \/ addon_handle_error
    \/ addon_on_load_finished

SpecConc == InitConc /\ [][NextConc]_vars

\* The slot of worker w's finished signal has run; the worker is in the
\* loop of import_data with a record still to visit.
FinishedHandled(w) == workers[w].finished_handled
Reconciling(w) == workers[w].pc = "import_data" /\ workers[w].pos <= Len(items)

(***************************************************************************)
(* C13: the dialog that the w-th load_from_db call opened is closed once   *)
(* the finished signal of the worker started by that call has been         *)
(* handled; and when the finished signal of every started worker has been  *)
(* handled, no dialog is open.                                             *)
(***************************************************************************)
C13_DialogClosedOnFinished ==
    /\ \A w \in DOMAIN workers : FinishedHandled(w) => dialogs[w] = "closed"
    /\ (\A w \in DOMAIN workers : FinishedHandled(w)) =>
            \A d \in DOMAIN dialogs : dialogs[d] = "closed"

(***************************************************************************)
(* C17: when the result signal of a worker has been delivered, its slot    *)
(* update_gui_with_data has returned without an exception, and every such  *)
(* delivery has refreshed the string list and emitted changes_signal (as   *)
(* every on_load_finished has); the records are as the workers left them.  *)
(***************************************************************************)
C17_ResultSlotCompletes ==
    LET delivered == {w \in DOMAIN workers : workers[w].result_slot # "pending"}
        finished == {w \in DOMAIN workers : FinishedHandled(w)}
    IN  /\ \A w \in delivered : workers[w].result_slot = "returned"
        /\ string_list_updates = Cardinality(delivered)
        /\ changes_emitted = Cardinality(delivered) + Cardinality(finished)

(***************************************************************************)
(* C18: load_from_db is enabled whatever the workers started before are    *)
(* doing (the only limit is the number of calls the model follows), and a  *)
(* call starts one more worker at once: the workers started before go on   *)
(* as they are, no signal is withdrawn, and the new worker is about to     *)
(* load its file for the same strings.                                     *)
(***************************************************************************)
C18_StartNeverRejected ==
    [][/\ Len(workers) < MaxWorkers => ENABLED addon_load_from_db
       /\ Len(workers') # Len(workers) =>
            /\ Len(workers') = Len(workers) + 1
            /\ \A w \in DOMAIN workers : workers'[w] = workers[w]
            /\ workers'[Len(workers')].pc = "load_data"
            /\ queue' = queue
            /\ items' = items]_vars

\* Two workers are in the loop of import_data over the same strings, each
\* with a record still to visit, and neither has finished.
C18_TwoWorkersReconciling ==
    /\ Len(workers) >= 2
    /\ Reconciling(1)
    /\ Reconciling(2)
    /\ \E k \in DOMAIN items : items[k].status # TranslationComplete

(***************************************************************************)
(* StackedWidget (src/src/widgets/stacked_widget.py): slide requests, the  *)
(* running animation group and the mouse press that jumps it to its end    *)
(*                                                                         *)
(* The pages are identified by their index; a widget that is not a page    *)
(* of the stack has index -1 (QStackedWidget.indexOf).  Of the time of an  *)
(* animation the model keeps whether more than 50 ms have passed (late).   *)
(* Not modelled: the geometry of the animation, setSpeed and               *)
(* setAnimationCurve.                                                      *)
(***************************************************************************)
Directions == {"LeftToRight", "RightToLeft", "TopToBottom", "BottomToTop", "Automatic"}

\* Arguments of slideInIndex: negative, in range and beyond the last page
IndexArgs == (0 - MaxPages - 1)..(2 * MaxPages)

\* The direction slideInIndex sets for an index beyond the last page, and
\* for a negative index
Forward == IF orientation = "Vertical" THEN "TopToBottom" ELSE "RightToLeft"
Backward == IF orientation = "Vertical" THEN "BottomToTop" ELSE "LeftToRight"

\* slideInWidget: Automatic becomes the direction of the index order, and
\* reverse exchanges the directions of each axis.
ResolveDirection(direction, current_index, next_index) ==
    LET d == IF direction = "Automatic"
             THEN IF current_index < next_index THEN Forward ELSE Backward
             ELSE direction
    IN  IF ~reverse THEN d
        ELSE CASE d = "TopToBottom" -> "BottomToTop"
               [] d = "BottomToTop" -> "TopToBottom"
               [] d = "LeftToRight" -> "RightToLeft"
               [] d = "RightToLeft" -> "LeftToRight"

\* QStackedWidget.setCurrentIndex: an index that is not a page changes nothing
setCurrentIndex(index) ==
    IF index \in 0..(page_count - 1) THEN index ELSE currentIndex

slide_frame == <<items, worker_vars, disk, esp_call, conc_vars>>

\* Mutant: slideInWidget does not test _active.
slideInWidget_unguarded(op, index, next_index, direction) ==
    /\ last_call' = [op |-> op, n |-> 1 - last_call.n, index |-> index,
                     target |-> next_index, direction |-> direction,
                     active |-> active, raised |-> None]
    /\ IF currentIndex = next_index
       THEN /\ active' = FALSE
            /\ UNCHANGED anims
       ELSE /\ active' = TRUE
            /\ anims' = Append(anims,
                    [next_index |-> next_index, late |-> FALSE,
                     direction |-> ResolveDirection(direction, currentIndex, next_index)])
    /\ UNCHANGED <<page_count, currentIndex, orientation, reverse, slide_frame>>

\* slideInWidget(nextWidget, direction), for the widget with index
\* next_index, reached by the request op with the argument index
slideInWidget(op, index, next_index, direction) ==
    /\ last_call' = [op |-> op, n |-> 1 - last_call.n, index |-> index,
                     target |-> next_index, direction |-> direction,
                     active |-> active, raised |-> None]
    /\ IF active
       THEN UNCHANGED <<active, anims>>
       ELSE IF currentIndex = next_index
       THEN /\ active' = FALSE
            /\ UNCHANGED anims
       ELSE /\ active' = TRUE
            /\ anims' = Append(anims,
                    [next_index |-> next_index, late |-> FALSE,
                     direction |-> ResolveDirection(direction, currentIndex, next_index)])
    /\ UNCHANGED <<page_count, currentIndex, orientation, reverse, slide_frame>>

\* Mutant: slideInIndex takes the nearest page instead of the index modulo
\* the number of pages.
slideInIndex_nearest_page(op, index, direction) ==
    IF page_count = 0
    THEN /\ last_call' = [op |-> op, n |-> 1 - last_call.n, index |-> index,
                          target |-> -1, direction |-> direction,
                          active |-> active, raised |-> "ZeroDivisionError"]
         /\ UNCHANGED <<page_count, currentIndex, active, anims, orientation,
                        reverse, slide_frame>>
    ELSE IF index > page_count - 1
    THEN slideInWidget(op, index, page_count - 1, Forward)
    ELSE IF index < 0
    THEN slideInWidget(op, index, 0, Backward)
    ELSE slideInWidget(op, index, index, direction)

\* slideInIndex(index, direction), reached by the request op
slideInIndex(op, index, direction) ==
    IF page_count = 0
    THEN \* index % self.count() with count() = 0
         /\ last_call' = [op |-> op, n |-> 1 - last_call.n, index |-> index,
                          target |-> -1, direction |-> direction,
                          active |-> active, raised |-> "ZeroDivisionError"]
         /\ UNCHANGED <<page_count, currentIndex, active, anims, orientation,
                        reverse, slide_frame>>
    ELSE IF index > page_count - 1
    THEN slideInWidget(op, index, index % page_count, Forward)
    ELSE IF index < 0
    THEN slideInWidget(op, index, (index + page_count) % page_count, Backward)
    ELSE slideInWidget(op, index, index, direction)

slideInNext ==
    slideInIndex("slideInNext",
                 IF currentIndex < page_count - 1 THEN currentIndex + 1 ELSE 0,
                 "Automatic")

slideInPrev ==
    slideInIndex("slideInPrev",
                 IF currentIndex > 0 THEN currentIndex - 1 ELSE page_count - 1,
                 "Automatic")

\* More than 50 ms of the running animation have passed
anim_time_passes ==
    /\ \E a \in DOMAIN anims :
        /\ ~anims[a].late
        /\ anims' = [anims EXCEPT ![a].late = TRUE]
    /\ UNCHANGED <<page_count, currentIndex, active, orientation, reverse,
                   last_call, slide_frame>>

\* The finished slot of animation group a: setCurrentIndex(next_index),
\* finish_anim; the group has stopped.
anim_finished_slot(a) ==
    /\ currentIndex' = setCurrentIndex(anims[a].next_index)
    /\ active' = FALSE
    /\ anims' = [k \in 1..(Len(anims) - 1) |-> IF k < a THEN anims[k] ELSE anims[k + 1]]
    /\ UNCHANGED <<page_count, orientation, reverse, last_call, slide_frame>>

\* The animation group has run for its duration
anim_group_finished ==
    \E a \in DOMAIN anims :
        /\ anims[a].late
        /\ anim_finished_slot(a)

\* mousePressEvent: anim_cancel_signal jumps a group that has run for more
\* than 50 ms to its end, which finishes it; an earlier press does nothing.
mousePressEvent ==
    IF \E a \in DOMAIN anims : anims[a].late
    THEN \E a \in DOMAIN anims : anims[a].late /\ anim_finished_slot(a)
    ELSE UNCHANGED vars

InitSlide ==
    /\ items = <<>>
    /\ pc = "idle"
    /\ path = None
    /\ data = EmptyDict
    /\ total_entries = 0
    /\ i = 0
    /\ pos = 1
    /\ exc = NoException
    /\ signals = <<>>
    /\ items0 = items
    /\ disk = AnyDisk
    /\ esp_call = NoCall
    /\ NoWorkers
    /\ page_count \in 0..MaxPages
    /\ currentIndex = IF page_count = 0 THEN -1 ELSE 0
    /\ active = FALSE
    /\ anims = <<>>
    /\ orientation \in {"Vertical", "Horizontal"}
    /\ reverse \in BOOLEAN
    /\ last_call = NoSlideCall

NextSlide ==
    \/ \E index \in IndexArgs, direction \in Directions :
         slideInIndex("slideInIndex", index, direction)
    \/ \E next_index \in -1..(page_count - 1), direction \in Directions :
         slideInWidget("slideInWidget", next_index, next_index, direction)
    \/ slideInNext
    \/ slideInPrev
    \/ anim_time_passes
    \/ anim_group_finished
    \/ mousePressEvent

SpecSlide == InitSlide /\ [][NextSlide]_vars

(***************************************************************************)
(* C20: at most one animation group runs at any time; a slide request      *)
(* (slideInWidget, slideInIndex, slideInNext, slideInPrev) made while      *)
(* _active is true changes neither the current index, nor the running      *)
(* animation and its target, nor _active; a request made while _active is  *)
(* false whose target is the current index starts no animation and leaves  *)
(* _active false.                                                          *)
(***************************************************************************)
C20_OneAnimationAtATime ==
    [][/\ Len(anims') <= 1
       /\ (last_call' # last_call /\ active) =>
            UNCHANGED <<currentIndex, anims, active>>
       /\ (/\ last_call' # last_call
           /\ ~active
           /\ last_call'.raised = None
           /\ last_call'.target = currentIndex) =>
            /\ anims' = <<>>
            /\ ~active'
            /\ currentIndex' = currentIndex]_vars

\* The last request asked, while an animation was running, for a page that
\* is neither the current one nor the target of the animation, which still
\* runs towards its own target.
C20_RequestIgnoredWhileActive ==
    /\ last_call.op = "slideInIndex"
    /\ last_call.active
    /\ active
    /\ Len(anims) = 1
    /\ last_call.target # anims[1].next_index
    /\ last_call.target # currentIndex
    /\ last_call.target \in 0..(page_count - 1)

(***************************************************************************)
(* C21: when an animation group finishes, by running for its duration or   *)
(* by a mouse press after more than 50 ms, currentIndex is the index of    *)
(* the target widget of that group and _active is false; a slide request   *)
(* made while _active is false for a widget other than the current one is  *)
(* accepted (it sets _active and starts an animation group); a mouse press *)
(* within the first 50 ms of the running animation changes nothing.        *)
(***************************************************************************)
C21_FinishCommitsTarget ==
    [][/\ \A a \in DOMAIN anims :
            (anims' = [k \in 1..(Len(anims) - 1) |->
                          IF k < a THEN anims[k] ELSE anims[k + 1]]) =>
                /\ currentIndex' = anims[a].next_index
                /\ ~active'
       /\ (/\ last_call' # last_call
           /\ ~active
           /\ last_call'.raised = None
           /\ last_call'.target # currentIndex) =>
                /\ active'
                /\ Len(anims') = Len(anims) + 1
                /\ anims'[Len(anims')].next_index = last_call'.target
       /\ (anims # <<>> /\ \A a \in DOMAIN anims : ~anims[a].late) =>
                ~ENABLED (mousePressEvent /\ vars' # vars)]_vars

(***************************************************************************)
(* C22: on a StackedWidget with at least one page, slideInIndex(index,     *)
(* direction) hands to slideInWidget the page whose position t is in       *)
(* 0..count-1 and differs from index by a multiple of count (t is index    *)
(* mod count).  For an index beyond the last page it hands over the        *)
(* forward direction of the widget's orientation, for a negative index the *)
(* backward direction, and for an index in range the caller's direction.   *)
(* An animation started for an index out of range runs as an Automatic     *)
(* one to a higher page (beyond the last page) or to a lower page          *)
(* (negative index) does.                                                  *)
(***************************************************************************)
C22_IndexModuloCount ==
    [][(/\ page_count > 0
        /\ last_call' # last_call
        /\ last_call'.op = "slideInIndex") =>
            LET index == last_call'.index
                t == last_call'.target
                started == Len(anims') = Len(anims) + 1
            IN  /\ last_call'.raised = None
                /\ t \in 0..(page_count - 1)
                /\ \E q \in IndexArgs : index = q * page_count + t
                /\ \E direction \in Directions :
                      /\ slideInIndex("slideInIndex", index, direction)
                      /\ last_call'.direction =
                            IF index > page_count - 1 THEN Forward
                            ELSE IF index < 0 THEN Backward
                            ELSE direction
                /\ started => anims'[Len(anims')].next_index = t
                /\ (started /\ index > page_count - 1) =>
                      anims'[Len(anims')].direction = ResolveDirection("Automatic", 0, 1)
                /\ (started /\ index < 0) =>
                      anims'[Len(anims')].direction = ResolveDirection("Automatic", 1, 0)]_vars

\* The last request was slideInIndex with a negative index more than one
\* round below the first page, and its animation towards a page other than
\* the current one is running.
C22_WrappedTwiceBelow ==
    /\ last_call.op = "slideInIndex"
    /\ ~last_call.active
    /\ page_count > 1
    /\ last_call.index + page_count < 0
    /\ active
    /\ Len(anims) = 1
    /\ anims[1].next_index = last_call.target
    /\ last_call.target # currentIndex

====
